---- MODULE Spec2Model ----
(***************************************************************************)
(* SmartByte: the Note Store (modules/storage.py) and the reminders.       *)
(*                                                                         *)
(* The store is two flat files: notes.csv (one row per note) and           *)
(* stats.json (total_xp, notes_created).  Every operation reads the whole  *)
(* table with pandas.read_csv, works on the DataFrame and writes the whole *)
(* table back with DataFrame.to_csv.  The model keeps the text of the      *)
(* files as its state and passes it through read_csv / to_csv exactly      *)
(* where the code does, so that what a cell looks like after the round     *)
(* trip is computed and not assumed.                                       *)
(*                                                                         *)
(* Time: pd.Timestamp.now() is read once by save_note and once by a        *)
(* successful update_note.  The wall clock is taken to advance between two *)
(* such reads (they are separated by a full rewrite of notes.csv), so the  *)
(* variable now counts the reads.                                          *)
(*                                                                         *)
(* The reminders (modules/reminders.py) are one BackgroundScheduler of      *)
(* APScheduler: a job store guarded by one lock, a scheduler thread that    *)
(* hands due jobs to a pool of worker threads, and the workers that run     *)
(* notify.  Each step made under the lock is one action; the calls of the   *)
(* control thread are interleaved with the scheduler thread, the workers    *)
(* and the clock (time, in seconds).                                        *)
(***************************************************************************)
EXTENDS Integers, Sequences, FiniteSets, TLC

VARIABLES
    notes_csv,      \* text of notes.csv: the rows below the header
    stats_json,     \* content of stats.json
    now,            \* the wall clock, in clock ticks
    last,           \* the latest call of the store: arguments and outcome
    prev_deleted,   \* the id the call before it deleted (0: it deleted none)
    created_ids,    \* the ids save_note has returned so far, oldest first
    time,           \* the wall clock of the reminders, in seconds
    sched_running,  \* reminders.scheduler is started and not shut down
    jobstore,       \* the jobs reminders.scheduler holds
    pool,           \* jobs handed to the scheduler's worker threads, not yet run
    fate,           \* what became of the job of each schedule call
    dispatches,     \* how often notify was invoked for the job of each call
    rlast,          \* the latest call of modules/reminders.py, if no job ran since
    wlast,          \* the latest job run of a worker thread, if no call came since
    stop_pending,   \* the jobs that were stored when stop_scheduler was called
    entry_title,    \* content of the title entry of the note editor
    txt_content,    \* content of the text widget of the note editor
    edit_modified,  \* the text widget's modified flag: a <<Modified>> event waits
    is_modified,    \* App.is_modified, the dirty flag
    current_note_id, \* App.current_note_id (0: None)
    autosave_timer, \* App.autosave_timer holds a scheduled callback
    filtered_notes, \* App.filtered_notes: the notes the listbox shows
    curselection,   \* the selected line of the notes listbox (0: none)
    dialog,         \* delete_selected_note waiting in its confirmation dialog
    closed,         \* on_closing has destroyed the window
    ui,             \* the latest step of the editor and the store calls it made
    lb_rem          \* the lines of the reminders listbox

store_vars == <<notes_csv, stats_json, now, last, prev_deleted, created_ids>>

sched_vars == <<time, sched_running, jobstore, pool, fate, dispatches, rlast, wlast,
                stop_pending>>

editor_vars == <<entry_title, txt_content, edit_modified, is_modified,
                 current_note_id, autosave_timer, filtered_notes, curselection,
                 dialog, closed, ui, lb_rem>>

vars == <<notes_csv, stats_json, now, last, prev_deleted, created_ids,
          time, sched_running, jobstore, pool, fate, dispatches, rlast, wlast,
          stop_pending,
          entry_title, txt_content, edit_modified, is_modified,
          current_note_id, autosave_timer, filtered_notes, curselection,
          dialog, closed, ui, lb_rem>>

-----------------------------------------------------------------------------
(* Bounds *)

MaxClock == 3       \* clock reads (creates + successful updates) explored
MaxFaultClock == 2  \* clock reads explored when calls may raise
MaxLimit == 3       \* largest limit passed to list_notes
TicksPerSec == 2    \* clock ticks per second (1 000 000 in the code, scaled)
MaxTime == 2        \* seconds of reminder time explored
MaxJobs == 2        \* schedule calls explored

\* misfire_grace_time of a BackgroundScheduler() built without job_defaults:
\* a run that starts more than this many seconds late is dropped
misfire_grace_time == 1

(* Inputs *)

\* title, text, tags as the editor hands them over
Drafts == {<<"T", "X", "a,b">>, <<"NA", "Y", "">>, <<"T", "None", "">>}
XPs    == {0, 7}

-----------------------------------------------------------------------------
(* DataFrame cells: a text cell is a str or NaN (a missing value). *)

Str(s) == [na |-> FALSE, s |-> s]
NaN    == [na |-> TRUE, s |-> ""]

\* pandas.read_csv, default na_values: cells with this text are read as NaN.
NaValues ==
    {"", "#N/A", "#N/A N/A", "#NA", "-1.#IND", "-1.#QNAN", "-NaN", "-nan",
     "1.#IND", "1.#QNAN", "<NA>", "N/A", "NA", "NULL", "NaN", "None", "n/a",
     "nan", "null"}

ParseCell(s) == IF s \in NaValues THEN NaN ELSE Str(s)

\* DataFrame.to_csv, default na_rep: NaN is written as the empty field.
WriteCell(c) == IF c.na THEN "" ELSE c.s

\* Series.fillna(""): NaN becomes the empty str.
fillna(c) == IF c.na THEN Str("") ELSE c

\* pd.read_csv(NOTES_CSV): id and xp are integer columns, datetime is text
\* that never is an NaN token, title/text/tags are text columns.
read_csv(file) ==
    [i \in 1..Len(file) |->
        [id       |-> file[i].id,
         datetime |-> file[i].datetime,
         title    |-> ParseCell(file[i].title),
         text     |-> ParseCell(file[i].text),
         tags     |-> ParseCell(file[i].tags),
         xp       |-> file[i].xp]]

\* df.to_csv(NOTES_CSV, index=False)
to_csv(df) ==
    [i \in 1..Len(df) |->
        [id       |-> df[i].id,
         datetime |-> df[i].datetime,
         title    |-> WriteCell(df[i].title),
         text     |-> WriteCell(df[i].text),
         tags     |-> WriteCell(df[i].tags),
         xp       |-> df[i].xp]]

-----------------------------------------------------------------------------
(* Timestamps.  pd.Timestamp.now().isoformat() prints the seconds and, only *)
(* when it is not zero, the fraction after them; the column is kept and    *)
(* sorted as text.  A printed timestamp is the sequence of its parts.      *)

Timestamp(t) == [sec |-> t \div TicksPerSec, frac |-> t % TicksPerSec]

isoformat(ts) == IF ts.frac = 0 THEN <<ts.sec>> ELSE <<ts.sec, ts.frac>>

\* Text order of two printed timestamps (a proper prefix sorts first).
RECURSIVE TextLess(_, _)
TextLess(a, b) ==
    IF b = <<>> THEN FALSE
    ELSE IF a = <<>> THEN TRUE
    ELSE IF Head(a) # Head(b) THEN Head(a) < Head(b)
    ELSE TextLess(Tail(a), Tail(b))

-----------------------------------------------------------------------------
(* Helpers on DataFrames *)

Ids(df) == {df[i].id : i \in 1..Len(df)}

SetMax(S) == CHOOSE m \in S : \A x \in S : x <= m

\* df[df["id"] != nid]
RECURSIVE DropId(_, _)
DropId(df, nid) ==
    IF df = <<>> THEN <<>>
    ELSE IF Head(df).id = nid THEN DropId(Tail(df), nid)
    ELSE <<Head(df)>> \o DropId(Tail(df), nid)

\* df[df["id"] == nid]
RECURSIVE KeepId(_, _)
KeepId(df, nid) ==
    IF df = <<>> THEN <<>>
    ELSE IF Head(df).id = nid THEN <<Head(df)>> \o KeepId(Tail(df), nid)
    ELSE KeepId(Tail(df), nid)


Min(a, b) == IF a <= b THEN a ELSE b

Max(a, b) == IF a >= b THEN a ELSE b

\* variant: ascending=False left out, smallest first
RECURSIVE sort_values_asc(_)
sort_values_asc(df) ==
    IF df = <<>> THEN <<>>
    ELSE LET i == CHOOSE k \in 1..Len(df) :
                     \A j \in 1..Len(df) : ~TextLess(df[j].datetime, df[k].datetime)
             rest == [j \in 1..(Len(df) - 1) |-> IF j < i THEN df[j] ELSE df[j + 1]]
         IN  <<df[i]>> \o sort_values_asc(rest)

\* df.sort_values("datetime", ascending=False): the text column, largest
\* first.  (Rows with equal keys would come in an order pandas does not
\* promise; the clock gives every row its own timestamp.)
RECURSIVE sort_values_desc(_)
sort_values_desc(df) ==
    IF df = <<>> THEN <<>>
    ELSE LET i == CHOOSE k \in 1..Len(df) :
                     \A j \in 1..Len(df) : ~TextLess(df[k].datetime, df[j].datetime)
             rest == [j \in 1..(Len(df) - 1) |-> IF j < i THEN df[j] ELSE df[j + 1]]
         IN  <<df[i]>> \o sort_values_desc(rest)

\* df.head(limit), limit >= 0
head(df, limit) == SubSeq(df, 1, Min(limit, Len(df)))

\* df.to_dict(orient="records") after the fillna of the text columns
to_dict(df) ==
    [i \in 1..Len(df) |->
        [id       |-> df[i].id,
         datetime |-> df[i].datetime,
         title    |-> df[i].title.s,
         text     |-> df[i].text.s,
         tags     |-> df[i].tags.s,
         xp       |-> df[i].xp]]

-----------------------------------------------------------------------------
(* The operations of modules/storage.py, as functions of the files.         *)
(* fault names the I/O step of the call that raises ("none": the call runs *)
(* to completion).  A step that raises leaves its file as it was.          *)

Faults == {"read_csv", "to_csv", "load_stats", "save_stats"}

\* The note_id argument of delete_note: "id (int or string)".
PyInt(n) == [type |-> "int", n |-> n, s |-> ""]

PyStr(s) == [type |-> "str", n |-> 0, s |-> s]

\* the texts passed as ids
IdTexts == {"2", "1x"}

\* s is an integer literal, the texts int() accepts
IsNumeral(s) == s = "2"

\* the digits s starts with, as a number (0: s starts with no digit)
LeadingDigits(s) == CASE s = "2" -> 2 [] s = "1x" -> 1 [] OTHER -> 0

\* variant: the digits a text starts with are taken for the id
int_Lenient(v) ==
    IF v.type = "int" THEN [ok |-> TRUE, n |-> v.n]
    ELSE [ok |-> LeadingDigits(v.s) > 0, n |-> LeadingDigits(v.s)]

\* int(note_id): ok is FALSE when int() raises
int(v) ==
    IF v.type = "int" THEN [ok |-> TRUE, n |-> v.n]
    ELSE IF IsNumeral(v.s) THEN [ok |-> TRUE, n |-> LeadingDigits(v.s)]
    ELSE [ok |-> FALSE, n |-> 0]

\* variant: the id taken from the number of rows, len(df) + 1
NextId_ByCount(df) == Len(df) + 1

\* nid = 1 if df.empty else int(df["id"].max()) + 1
NextId(df) == IF df = <<>> THEN 1 ELSE SetMax(Ids(df)) + 1

\* the dict `new` of save_note
NewRow(nid, t, title, text, tags, xp) ==
    [id       |-> nid,
     datetime |-> isoformat(Timestamp(t)),
     title    |-> Str(title),
     text     |-> Str(text),
     tags     |-> Str(tags),
     xp       |-> xp]

\* variant: the note is not counted
StatsAfterSave_NoCount(stats, xp) == [stats EXCEPT !.total_xp = @ + xp]

\* stats["total_xp"] += xp; stats["notes_created"] += 1
StatsAfterSave(stats, xp) ==
    [stats EXCEPT !.total_xp = @ + xp, !.notes_created = @ + 1]

\* variant: the stats are raised before the table is written
save_note_StatsFirst(file, stats, t, title, text, tags, xp, fault) ==
    LET df  == read_csv(file)
        nid == NextId(df)
        df2 == Append(df, NewRow(nid, t, title, text, tags, xp))
    IN  IF fault \in {"read_csv", "load_stats", "save_stats"}
        THEN [notes |-> file, stats |-> stats, ret_id |-> 0, raised |-> TRUE]
        ELSE IF fault = "to_csv"
        THEN [notes |-> file, stats |-> StatsAfterSave(stats, xp), ret_id |-> 0,
              raised |-> TRUE]
        ELSE [notes |-> to_csv(df2), stats |-> StatsAfterSave(stats, xp),
              ret_id |-> nid, raised |-> FALSE]

\* pd.Timestamp.now() is read after read_csv and before to_csv.
save_note(file, stats, t, title, text, tags, xp, fault) ==
    LET df  == read_csv(file)
        nid == NextId(df)
        df2 == Append(df, NewRow(nid, t, title, text, tags, xp))
    IN  IF fault \in {"read_csv", "to_csv"}
        THEN [notes |-> file, stats |-> stats, ret_id |-> 0, raised |-> TRUE]
        ELSE IF fault \in {"load_stats", "save_stats"}
        THEN [notes |-> to_csv(df2), stats |-> stats, ret_id |-> 0, raised |-> TRUE]
        ELSE [notes |-> to_csv(df2), stats |-> StatsAfterSave(stats, xp),
              ret_id |-> nid, raised |-> FALSE]

\* variant: the xp column is assigned too
UpdateRow_WithXp(row, t, title, text, tags, xp) ==
    [row EXCEPT !.title = Str(title), !.text = Str(text), !.tags = Str(tags),
                !.datetime = isoformat(Timestamp(t)), !.xp = xp]

\* df.loc[df["id"] == note_id, col] = value, for title, text, tags, datetime
UpdateRow(row, t, title, text, tags, xp) ==
    [row EXCEPT !.title = Str(title), !.text = Str(text), !.tags = Str(tags),
                !.datetime = isoformat(Timestamp(t))]

\* variant: an id that is not found is inserted
update_note_Upsert(file, t, note_id, title, text, tags, xp, fault) ==
    LET df  == read_csv(file)
        df2 == [i \in 1..Len(df) |->
                   IF df[i].id = note_id
                   THEN UpdateRow(df[i], t, title, text, tags, xp)
                   ELSE df[i]]
        df3 == Append(df, NewRow(note_id, t, title, text, tags, xp))
    IN  IF fault = "read_csv"
        THEN [notes |-> file, ret_ok |-> FALSE, raised |-> TRUE]
        ELSE IF fault = "to_csv"
        THEN [notes |-> file, ret_ok |-> FALSE, raised |-> TRUE]
        ELSE IF df = <<>> \/ note_id \notin Ids(df)
        THEN [notes |-> to_csv(df3), ret_ok |-> TRUE, raised |-> FALSE]
        ELSE [notes |-> to_csv(df2), ret_ok |-> TRUE, raised |-> FALSE]

update_note(file, t, note_id, title, text, tags, xp, fault) ==
    LET df  == read_csv(file)
        df2 == [i \in 1..Len(df) |->
                   IF df[i].id = note_id
                   THEN UpdateRow(df[i], t, title, text, tags, xp)
                   ELSE df[i]]
    IN  IF fault = "read_csv"
        THEN [notes |-> file, ret_ok |-> FALSE, raised |-> TRUE]
        ELSE IF df = <<>> \/ note_id \notin Ids(df)
        THEN [notes |-> file, ret_ok |-> FALSE, raised |-> FALSE]
        ELSE IF fault = "to_csv"
        THEN [notes |-> file, ret_ok |-> FALSE, raised |-> TRUE]
        ELSE [notes |-> to_csv(df2), ret_ok |-> TRUE, raised |-> FALSE]

list_notes(file, limit) ==
    LET df     == read_csv(file)
        filled == [i \in 1..Len(df) |->
                      [df[i] EXCEPT !.title = fillna(@), !.text = fillna(@),
                                    !.tags = fillna(@)]]
    IN  IF df = <<>> THEN <<>>
        ELSE to_dict(head(sort_values_desc(filled), limit))

\* variant: the note's xp is not taken off
StatsAfterDelete_KeepXp(stats, xp) == [stats EXCEPT !.notes_created = Max(0, @ - 1)]

\* stats["total_xp"] = max(0, total_xp - xp);
\* stats["notes_created"] = max(0, notes_created - 1)
StatsAfterDelete(stats, xp) ==
    [stats EXCEPT !.total_xp = Max(0, @ - xp), !.notes_created = Max(0, @ - 1)]

\* variant: no test that the id is in the table (the row lookup then fails,
\* which the code catches with xp = 0)
delete_note_Unchecked(file, stats, note_id, fault) ==
    LET df  == read_csv(file)
        nid == int(note_id).n
        xp  == IF nid \in Ids(df) THEN KeepId(df, nid)[1].xp ELSE 0
        df2 == DropId(df, nid)
        io1 == <<"ensure_files", "read_csv">>
        io2 == io1 \o <<"to_csv">>
        io3 == io2 \o <<"load_stats">>
        io4 == io3 \o <<"save_stats">>
    IN  IF fault = "read_csv"
        THEN [notes |-> file, stats |-> stats, ret_ok |-> FALSE, raised |-> TRUE,
              io |-> io1]
        ELSE IF df = <<>> \/ ~int(note_id).ok
        THEN [notes |-> file, stats |-> stats, ret_ok |-> FALSE, raised |-> FALSE,
              io |-> io1]
        ELSE IF fault = "to_csv"
        THEN [notes |-> file, stats |-> stats, ret_ok |-> FALSE, raised |-> TRUE,
              io |-> io2]
        ELSE IF fault = "load_stats"
        THEN [notes |-> to_csv(df2), stats |-> stats, ret_ok |-> FALSE, raised |-> TRUE,
              io |-> io3]
        ELSE IF fault = "save_stats"
        THEN [notes |-> to_csv(df2), stats |-> stats, ret_ok |-> FALSE, raised |-> TRUE,
              io |-> io4]
        ELSE [notes |-> to_csv(df2), stats |-> StatsAfterDelete(stats, xp),
              ret_ok |-> TRUE, raised |-> FALSE, io |-> io4]

\* ensure_files() and read_csv come first; the id is normalised with int()
\* only after the test for the empty table.  io lists the I/O steps the call
\* makes, in order, the raising one included.
delete_note(file, stats, note_id, fault) ==
    LET df  == read_csv(file)
        nid == int(note_id).n
        xp  == KeepId(df, nid)[1].xp
        df2 == DropId(df, nid)
        io1 == <<"ensure_files", "read_csv">>
        io2 == io1 \o <<"to_csv">>
        io3 == io2 \o <<"load_stats">>
        io4 == io3 \o <<"save_stats">>
    IN  IF fault = "read_csv"
        THEN [notes |-> file, stats |-> stats, ret_ok |-> FALSE, raised |-> TRUE,
              io |-> io1]
        ELSE IF df = <<>>
        THEN [notes |-> file, stats |-> stats, ret_ok |-> FALSE, raised |-> FALSE,
              io |-> io1]
        ELSE IF ~int(note_id).ok
        THEN [notes |-> file, stats |-> stats, ret_ok |-> FALSE, raised |-> FALSE,
              io |-> io1]
        ELSE IF nid \notin Ids(df)
        THEN [notes |-> file, stats |-> stats, ret_ok |-> FALSE, raised |-> FALSE,
              io |-> io1]
        ELSE IF fault = "to_csv"
        THEN [notes |-> file, stats |-> stats, ret_ok |-> FALSE, raised |-> TRUE,
              io |-> io2]
        ELSE IF fault = "load_stats"
        THEN [notes |-> to_csv(df2), stats |-> stats, ret_ok |-> FALSE, raised |-> TRUE,
              io |-> io3]
        ELSE IF fault = "save_stats"
        THEN [notes |-> to_csv(df2), stats |-> stats, ret_ok |-> FALSE, raised |-> TRUE,
              io |-> io4]
        ELSE [notes |-> to_csv(df2), stats |-> StatsAfterDelete(stats, xp),
              ret_ok |-> TRUE, raised |-> FALSE, io |-> io4]

-----------------------------------------------------------------------------
(* Call records *)

NoCall ==
    [op |-> "none", note_id |-> 0, title |-> "", text |-> "", tags |-> "",
     xp |-> 0, limit |-> 0, ret_id |-> 0, ret_ok |-> FALSE,
     ret_list |-> <<>>, raised |-> FALSE, arg |-> PyInt(0), io |-> <<>>]

\* what is kept of a call once a later call has been made
Deleted(call) == IF call.op = "delete_note" /\ call.ret_ok THEN call.note_id ELSE 0

-----------------------------------------------------------------------------
(* State *)

\* what notify has done when it was not called
NoNotify == [spoken |-> FALSE, raised |-> FALSE]

\* the record of a call of modules/reminders.py
NoRCall ==
    [op |-> "none", via |-> "", run_dt |-> 0, jid |-> "", n |-> 0,
     ret_id |-> "", ret_ok |-> FALSE, ret_list |-> {}, raised |-> FALSE,
     repeats |-> FALSE, sel |-> 0]

\* the record of a job run
NoRun ==
    [n |-> 0, missed |-> FALSE,
     osascript_failed |-> FALSE, speak_failed |-> FALSE, result |-> NoNotify]

Calls == 1..MaxJobs

\* scheduler = BackgroundScheduler(); scheduler.start()
InitReminders ==
    /\ time = 0
    /\ sched_running = TRUE
    /\ jobstore = {}
    /\ pool = {}
    /\ fate = [n \in Calls |-> "none"]
    /\ dispatches = [n \in Calls |-> 0]
    /\ rlast = NoRCall
    /\ wlast = NoRun
    /\ stop_pending = {}

\* App.refresh_reminders with no job: the lines of the empty list
NoReminders ==
    <<<<"">>, <<"   No active reminders">>, <<"">>,
      <<"   Create your first reminder using the form on the left!">>>>

\* no delete flow is waiting; notes .. dirty are the files and the editor
\* as the flow found them
NoDialog ==
    [open |-> FALSE, nid |-> 0, original_title |-> "", original_text |-> "",
     notes |-> <<>>, stats |-> [total_xp |-> 0, notes_created |-> 0],
     cur |-> 0, title |-> "", text |-> "", dirty |-> FALSE]

\* no step of the editor was taken.  dirty: is_modified when the step began;
\* gone: a delete flow removed a note and the user has entered nothing since;
\* added: the rows added to notes.csv in this editing session
NoStep ==
    [op |-> "none", calls |-> <<>>, dirty |-> FALSE, raised |-> FALSE,
     gone |-> FALSE, added |-> 0]

\* App.__init__: an empty editor on a new note, the list read from the store,
\* the autosave timer started
InitEditor ==
    /\ entry_title = ""
    /\ txt_content = ""
    /\ edit_modified = FALSE
    /\ is_modified = FALSE
    /\ current_note_id = 0
    /\ autosave_timer = TRUE
    /\ filtered_notes = <<>>
    /\ curselection = 0
    /\ dialog = NoDialog
    /\ closed = FALSE
    /\ ui = NoStep

\* ensure_files() on a fresh data directory (main.py calls it at import)
Init ==
    /\ notes_csv = <<>>
    /\ stats_json = [total_xp |-> 0, notes_created |-> 0]
    /\ now = 0
    /\ last = NoCall
    /\ prev_deleted = 0
    /\ created_ids = <<>>
    /\ InitReminders
    /\ InitEditor
    /\ lb_rem = NoReminders

NoteIds == 1..MaxClock

DoSaveNote(title, text, tags, xp, fault) ==
    LET r == save_note(notes_csv, stats_json, now, title, text, tags, xp, fault)
    IN  /\ now < MaxClock
        /\ notes_csv' = r.notes
        /\ stats_json' = r.stats
        /\ now' = IF fault = "read_csv" THEN now ELSE now + 1
        /\ created_ids' = IF r.raised THEN created_ids ELSE Append(created_ids, r.ret_id)
        /\ prev_deleted' = Deleted(last)
        /\ last' = [NoCall EXCEPT !.op = "save_note", !.title = title, !.text = text,
                                  !.tags = tags, !.xp = xp,
                                  !.ret_id = r.ret_id, !.raised = r.raised]

DoUpdateNote(note_id, title, text, tags, xp, fault) ==
    LET r == update_note(notes_csv, now, note_id, title, text, tags, xp, fault)
    IN  /\ now < MaxClock
        /\ notes_csv' = r.notes
        /\ now' = IF r.ret_ok \/ (fault = "to_csv" /\ r.raised) THEN now + 1 ELSE now
        /\ prev_deleted' = Deleted(last)
        /\ last' = [NoCall EXCEPT !.op = "update_note", !.note_id = note_id,
                                  !.title = title, !.text = text, !.tags = tags,
                                  !.xp = xp,
                                  !.ret_ok = r.ret_ok, !.raised = r.raised]
        /\ UNCHANGED <<stats_json, created_ids>>

DoListNotes(limit) ==
    /\ prev_deleted' = Deleted(last)
    /\ last' = [NoCall EXCEPT !.op = "list_notes", !.limit = limit,
                              !.ret_list = list_notes(notes_csv, limit)]
    /\ UNCHANGED <<notes_csv, stats_json, now, created_ids>>

DoDeleteNote(note_id, fault) ==
    LET r == delete_note(notes_csv, stats_json, note_id, fault)
    IN  /\ notes_csv' = r.notes
        /\ stats_json' = r.stats
        /\ prev_deleted' = Deleted(last)
        /\ last' = [NoCall EXCEPT !.op = "delete_note", !.arg = note_id,
                                  !.note_id = int(note_id).n, !.io = r.io,
                                  !.ret_ok = r.ret_ok, !.raised = r.raised]
        /\ UNCHANGED <<now, created_ids>>

SaveNote ==
    \E d \in Drafts, xp \in XPs : DoSaveNote(d[1], d[2], d[3], xp, "none")

UpdateNote ==
    \E note_id \in NoteIds, d \in Drafts, xp \in XPs :
        DoUpdateNote(note_id, d[1], d[2], d[3], xp, "none")

ListNotes == \E limit \in 0..MaxLimit : DoListNotes(limit)

DeleteNote == \E note_id \in NoteIds : DoDeleteNote(PyInt(note_id), "none")

DeleteNoteText == \E s \in IdTexts : DoDeleteNote(PyStr(s), "none")

Next ==
    \/ SaveNote /\ UNCHANGED <<sched_vars, editor_vars>>
    \/ UpdateNote /\ UNCHANGED <<sched_vars, editor_vars>>
    \/ ListNotes /\ UNCHANGED <<sched_vars, editor_vars>>
    \/ DeleteNote /\ UNCHANGED <<sched_vars, editor_vars>>
    \/ DeleteNoteText /\ UNCHANGED <<sched_vars, editor_vars>>

\* every call runs to completion
Spec == Init /\ [][Next]_vars

SaveNoteFault ==
    \E d \in Drafts, xp \in XPs, fault \in Faults :
        DoSaveNote(d[1], d[2], d[3], xp, fault)

UpdateNoteFault ==
    \E note_id \in NoteIds, d \in Drafts, xp \in XPs, fault \in {"read_csv", "to_csv"} :
        DoUpdateNote(note_id, d[1], d[2], d[3], xp, fault)

DeleteNoteFault ==
    \E note_id \in NoteIds, fault \in Faults : DoDeleteNote(PyInt(note_id), fault)

NextFault ==
    \/ now < MaxFaultClock /\ SaveNote /\ UNCHANGED <<sched_vars, editor_vars>>
    \/ now < MaxFaultClock /\ UpdateNote /\ UNCHANGED <<sched_vars, editor_vars>>
    \/ now < MaxFaultClock /\ ListNotes /\ UNCHANGED <<sched_vars, editor_vars>>
    \/ now < MaxFaultClock /\ DeleteNote /\ UNCHANGED <<sched_vars, editor_vars>>
    \/ now < MaxFaultClock /\ SaveNoteFault /\ UNCHANGED <<sched_vars, editor_vars>>
    \/ now < MaxFaultClock /\ UpdateNoteFault /\ UNCHANGED <<sched_vars, editor_vars>>
    \/ now < MaxFaultClock /\ DeleteNoteFault /\ UNCHANGED <<sched_vars, editor_vars>>

\* a call may raise at any of its I/O steps; explored up to MaxFaultClock
\* clock reads
SpecFault == Init /\ [][NextFault]_vars

-----------------------------------------------------------------------------
(* modules/reminders.py.  The module holds one BackgroundScheduler, started  *)
(* at import.  A job is [id, run_date, msg, n]: n numbers the schedule call  *)
(* that made the job and tells apart jobs that were given the same id.      *)

\* the message of the n-th schedule call: every call passes a text of its own
MsgOf(n) == "m" \o ToString(n)

RunDates == 0..MaxTime

\* an id the caller passes for jid
JobIds == {"a"}

\* str(run_dt.timestamp())
TimestampText(run_dt) == ToString(run_dt) \o ".0"

\* the texts remove_job is called with: every id schedule can return,
\* whether a job holds it or not
CancelIds == {TimestampText(t) : t \in RunDates} \cup JobIds

IdsOf(store) == {j.id : j \in store}

JobWithId(store, jid) == CHOOSE j \in store : j.id = jid

\* variant: replace_existing=True, the job that holds the id is replaced
add_job_Replace(store, job) ==
    [store |-> {j \in store : j.id # job.id} \cup {job}, raised |-> FALSE]

\* scheduler.add_job(..., id=jid) on the running scheduler, replace_existing
\* left at False: an id the store holds raises ConflictingIdError
add_job(store, job) ==
    IF job.id \in IdsOf(store)
    THEN [store |-> store, raised |-> TRUE]
    ELSE [store |-> store \cup {job}, raised |-> FALSE]

\* jid = jid or str(run_dt.timestamp()); "" stands for None
schedule(store, run_dt, msg, jid, n) ==
    LET id == IF jid = "" THEN TimestampText(run_dt) ELSE jid
        r  == add_job(store, [id |-> id, run_date |-> run_dt, msg |-> msg, n |-> n])
    IN  [store |-> r.store, raised |-> r.raised,
         ret_id |-> IF r.raised THEN "" ELSE id]

\* scheduler.get_jobs(): the stored jobs while the scheduler runs, the
\* pending ones (none: nothing is scheduled after the shutdown) once stopped
get_jobs(running, store) == IF running THEN store ELSE {}

\* [(j.id, j.next_run_time) for j in scheduler.get_jobs()], order dropped
list_jobs(running, store) == {<<j.id, j.run_date>> : j \in get_jobs(running, store)}

\* variant: the lookup error is not told from success
remove_job_AlwaysTrue(running, store, jid) ==
    [store |-> {j \in store : ~(running /\ j.id = jid)}, ret_ok |-> TRUE]

\* scheduler.remove_job(jid) raises JobLookupError for an id it does not
\* hold; the except returns False
remove_job(running, store, jid) ==
    IF running /\ jid \in IdsOf(store)
    THEN [store |-> {j \in store : j.id # jid}, ret_ok |-> TRUE]
    ELSE [store |-> store, ret_ok |-> FALSE]

\* variant: the scheduler keeps running
stop_scheduler_NoOp(running) == running

\* scheduler.shutdown(wait=False); SchedulerNotRunningError is swallowed
stop_scheduler(running) == FALSE

\* the stored jobs whose run_date has come
due_jobs(store, t) == {j \in store : j.run_date <= t}

\* variant: a job handed to a worker stays in the store
process_jobs_Keep(store, workers, t) ==
    LET due     == due_jobs(store, t)
        skipped == {j \in due : j.id \in IdsOf(workers)}
    IN  [store |-> store, pool |-> workers \cup (due \ skipped), skipped |-> skipped]

\* One pass of the scheduler thread, made under the lock of the job store:
\* each due job is handed to a worker and, its 'date' trigger having no
\* further run time, removed from the store.  A job whose id is that of a job
\* a worker still holds is over max_instances (1) and is not handed over.
process_jobs(store, workers, t) ==
    LET due     == due_jobs(store, t)
        skipped == {j \in due : j.id \in IdsOf(workers)}
    IN  [store |-> store \ due, pool |-> workers \cup (due \ skipped),
         skipped |-> skipped]

\* What a notify call meets: the platform, and whether osascript and the
\* speech engine fail.
NotifyEnvs ==
    {e \in [darwin : BOOLEAN, osascript_fails : BOOLEAN, speak_fails : BOOLEAN] :
        e.osascript_fails => e.darwin}

\* speak(msg) of modules/tts.py: the announcement is made, or it fails
speak(msg, fails) == [spoken |-> ~fails, raised |-> fails]

\* subprocess.run under try/except on Darwin (what it shows is not kept),
\* then speak(msg) outside any try
notify(msg, env) ==
    LET sp == speak(msg, env.speak_fails)
    IN  [spoken |-> sp.spoken, raised |-> sp.raised]

\* variant: an exception of the job's callable ends the scheduler
run_job_Uncaught(job, t, env, running) ==
    IF t - job.run_date > misfire_grace_time
    THEN [missed |-> TRUE, result |-> NoNotify, running |-> running]
    ELSE [missed |-> FALSE, result |-> notify(job.msg, env),
          running |-> running /\ ~notify(job.msg, env).raised]

\* variant: a late run is made all the same
run_job_NoGrace(job, t, env, running) ==
    [missed |-> FALSE, result |-> notify(job.msg, env), running |-> running]

\* A worker thread runs lambda: notify(msg): a run more than
\* misfire_grace_time late is dropped; an exception of the callable is logged
\* by the worker and goes no further.
run_job(job, t, env, running) ==
    IF t - job.run_date > misfire_grace_time
    THEN [missed |-> TRUE, result |-> NoNotify, running |-> running]
    ELSE [missed |-> FALSE, result |-> notify(job.msg, env), running |-> running]

\* App.schedule_reminder: if dt <= datetime.now(): showerror; return
FormAccepts(dt, t) == dt > t

\* App.remind_for_selected_note: the parsed time is passed on as it is
NoteDialogAccepts(dt, t) == TRUE

\* the number of schedule calls made so far
Scheduled == Cardinality({n \in Calls : fate[n] # "none"})

\* reminders.schedule_reminder(dt, msg, jid) -> schedule(dt, msg, jid).  The
\* callers are gone once stop_scheduler was called (on_closing destroys the
\* window), so no job is scheduled after it.
DoSchedule(run_dt, jid, via) ==
    LET n == Scheduled + 1
        r == schedule(jobstore, run_dt, MsgOf(n), jid, n)
    IN  /\ sched_running
        /\ Scheduled < MaxJobs
        /\ jobstore' = r.store
        /\ fate' = [fate EXCEPT ![n] = IF r.raised THEN "refused" ELSE "scheduled"]
        /\ rlast' = [NoRCall EXCEPT !.op = "schedule", !.via = via, !.run_dt = run_dt,
                                    !.jid = jid, !.n = n,
                                    !.ret_id = r.ret_id, !.raised = r.raised]
        /\ wlast' = NoRun
        /\ UNCHANGED <<time, sched_running, pool, dispatches, stop_pending>>

\* a UI handler that refuses the time: an error box, nothing is scheduled
DoReject(run_dt, via) ==
    /\ sched_running
    /\ rlast' = [NoRCall EXCEPT !.op = "rejected", !.via = via]
    /\ wlast' = NoRun
    /\ UNCHANGED <<time, sched_running, jobstore, pool, fate, dispatches, stop_pending>>

\* App.schedule_reminder: the time is validated, then _sched calls
\* reminders.schedule_reminder(dt, msg) and catches what it raises
ScheduleReminderForm ==
    \E dt \in RunDates :
        IF FormAccepts(dt, time)
        THEN DoSchedule(dt, "", "form")
        ELSE DoReject(dt, "form")

\* App.remind_for_selected_note: _sched_note calls
\* reminders.schedule_reminder(dt, pre_message)
RemindForSelectedNote ==
    \E dt \in RunDates :
        IF NoteDialogAccepts(dt, time)
        THEN DoSchedule(dt, "", "note")
        ELSE DoReject(dt, "note")

\* schedule(run_dt, msg, jid) with an id of the caller's
ScheduleWithId ==
    \E dt \in RunDates, jid \in JobIds : DoSchedule(dt, jid, "api")

\* the call removed the job with id jid
Removed(call, jid) == call.op = "remove_job" /\ call.ret_ok /\ call.jid = jid

DoRemoveJob(jid) ==
    LET r == remove_job(sched_running, jobstore, jid)
        n == IF r.ret_ok /\ jid \in IdsOf(jobstore) THEN JobWithId(jobstore, jid).n ELSE 0
    IN  /\ jobstore' = r.store
        /\ fate' = [c \in Calls |-> IF c = n THEN "cancelled" ELSE fate[c]]
        /\ rlast' = [NoRCall EXCEPT !.op = "remove_job", !.jid = jid, !.n = n,
                                    !.ret_ok = r.ret_ok,
                                    !.repeats = Removed(rlast, jid)]
        /\ wlast' = NoRun
        /\ UNCHANGED <<time, sched_running, pool, dispatches, stop_pending>>

RemoveJob == \E jid \in CancelIds : DoRemoveJob(jid)

ListJobs ==
    /\ rlast' = [NoRCall EXCEPT !.op = "list_jobs",
                                !.ret_list = list_jobs(sched_running, jobstore)]
    /\ wlast' = NoRun
    /\ UNCHANGED <<time, sched_running, jobstore, pool, fate, dispatches, stop_pending>>

\* App.on_closing -> reminders.stop_scheduler()
StopScheduler ==
    /\ sched_running' = stop_scheduler(sched_running)
    /\ stop_pending' = IF sched_running
                       THEN {j.n : j \in jobstore}
                       ELSE stop_pending
    /\ rlast' = [NoRCall EXCEPT !.op = "stop_scheduler"]
    /\ wlast' = NoRun
    /\ UNCHANGED <<time, jobstore, pool, fate, dispatches>>

\* the scheduler thread wakes for the due jobs
ProcessJobs ==
    LET r == process_jobs(jobstore, pool, time)
    IN  /\ sched_running
        /\ due_jobs(jobstore, time) # {}
        /\ jobstore' = r.store
        /\ pool' = r.pool
        /\ fate' = [c \in Calls |->
                       IF c \in {j.n : j \in r.skipped} THEN "skipped"
                       ELSE IF c \in {j.n : j \in r.pool \ pool} THEN "submitted"
                       ELSE fate[c]]
        /\ UNCHANGED <<time, sched_running, dispatches, rlast, wlast, stop_pending>>

\* a worker thread runs a job it was handed
RunJob ==
    \E job \in pool, env \in NotifyEnvs :
        LET r == run_job(job, time, env, sched_running)
        IN  /\ pool' = pool \ {job}
            /\ sched_running' = r.running
            /\ fate' = [fate EXCEPT ![job.n] = IF r.missed THEN "missed"
                                               ELSE IF r.result.raised THEN "failed"
                                               ELSE "dispatched"]
            /\ dispatches' = [dispatches EXCEPT ![job.n] = IF r.missed THEN @ ELSE @ + 1]
            /\ wlast' = [n |-> job.n, missed |-> r.missed,
                         osascript_failed |-> ~r.missed /\ env.osascript_fails,
                         speak_failed |-> ~r.missed /\ env.speak_fails,
                         result |-> r.result]
            /\ rlast' = NoRCall
            /\ UNCHANGED <<time, jobstore, stop_pending>>

\* a second passes
Tick ==
    /\ time < MaxTime
    /\ time' = time + 1
    /\ UNCHANGED <<sched_running, jobstore, pool, fate, dispatches, rlast, wlast,
                   stop_pending>>

NextReminders ==
    \/ ScheduleReminderForm /\ UNCHANGED <<store_vars, editor_vars>>
    \/ RemindForSelectedNote /\ UNCHANGED <<store_vars, editor_vars>>
    \/ ScheduleWithId /\ UNCHANGED <<store_vars, editor_vars>>
    \/ RemoveJob /\ UNCHANGED <<store_vars, editor_vars>>
    \/ ListJobs /\ UNCHANGED <<store_vars, editor_vars>>
    \/ StopScheduler /\ UNCHANGED <<store_vars, editor_vars>>
    \/ ProcessJobs /\ UNCHANGED <<store_vars, editor_vars>>
    \/ RunJob /\ UNCHANGED <<store_vars, editor_vars>>
    \/ Tick /\ UNCHANGED <<store_vars, editor_vars>>

\* the reminders alone: the control thread's calls interleaved with the
\* scheduler thread, the worker threads and the clock
SpecReminders == Init /\ [][NextReminders]_vars

\* The scheduler thread and the workers are threads of their own and the
\* clock does not stop: each keeps taking its step while it has one.
SpecRemindersLive ==
    /\ Init /\ [][NextReminders]_vars
    /\ WF_vars(Tick /\ UNCHANGED <<store_vars, editor_vars>>)
    /\ WF_vars(ProcessJobs /\ UNCHANGED <<store_vars, editor_vars>>)
    /\ WF_vars(RunJob /\ UNCHANGED <<store_vars, editor_vars>>)

-----------------------------------------------------------------------------
(* The note editor (main.py, class App): the title entry, the text widget, *)
(* the notes listbox and the autosave timer.  Every callback runs on the   *)
(* Tk event loop, one at a time.  A change of the text widget raises its   *)
(* modified flag and queues a <<Modified>> event, which _on_text_modified  *)
(* handles once the running callback has returned; the confirmation dialog *)
(* of delete_selected_note runs an event loop of its own.                  *)

\* the texts typed into the text widget
EditorTexts == {"", " ab ", "abc"}

\* the title typed into the title entry
EditorTitles == {"T"}

\* the characters of a text; a title is one unbroken word
Chars(s) ==
    CASE s = ""     -> <<>>
      [] s = " ab " -> <<" ", "a", "b", " ">>
      [] s = "ab"   -> <<"a", "b">>
      [] s = "abc"  -> <<"a", "b", "c">>
      [] OTHER      -> <<s>>

RECURSIVE Join(_)
Join(cs) == IF cs = <<>> THEN "" ELSE Head(cs) \o Join(Tail(cs))

RECURSIVE lstrip(_)
lstrip(cs) == IF cs # <<>> /\ Head(cs) = " " THEN lstrip(Tail(cs)) ELSE cs

RECURSIVE rstrip(_)
rstrip(cs) ==
    IF cs # <<>> /\ cs[Len(cs)] = " " THEN rstrip(SubSeq(cs, 1, Len(cs) - 1)) ELSE cs

\* variant: the text is taken as typed
strip_Keep(s) == s

\* str.strip()
strip(s) == Join(rstrip(lstrip(Chars(s))))

\* len(text)
len(s) == Len(Chars(s))

\* the least length of a text autosave saves
MinAutosaveLen == 3

\* variant: every text is saved
too_short_Never(text) == FALSE

\* not text or len(text) < 3
too_short(text) == text = "" \/ len(text) < MinAutosaveLen

\* f"Untitled note #{next_idx}"
untitled(n) == "Untitled note #" \o ToString(n)

\* the numbers of the notes titled "Untitled note #<digits>"
untitled_nums(notes) ==
    {n \in 1..(MaxClock + 1) : \E i \in 1..Len(notes) : notes[i].title = untitled(n)}

\* the title given to a note saved without one
auto_title(file) ==
    LET nums == untitled_nums(list_notes(file, 9999))
    IN  untitled(IF nums = {} THEN 1 ELSE SetMax(nums) + 1)

\* xp = 5 + min(50, len(text) // 20)
xp_of(text) == 5 + Min(50, len(text) \div 20)

\* what a save leaves: the files, the current note id, whether the dirty
\* flag was cleared, the store calls made and how often the clock was read
Outcome(file, stats, cur, saved, calls, raised, clock) ==
    [notes |-> file, stats |-> stats, cur |-> cur, saved |-> saved,
     calls |-> calls, raised |-> raised, clock |-> clock]

\* variant: a note that is not found is not created again
save_or_update_NoFallback(file, stats, t, cur, title, text, fault) ==
    LET xp == xp_of(text)
        u  == update_note(file, t, cur, title, text, "", xp, fault)
        c  == save_note(file, stats, t, title, text, "", xp, fault)
    IN  IF cur # 0
        THEN Outcome(u.notes, stats, cur, ~u.raised, <<"update_note">>, u.raised,
                     IF u.ret_ok \/ (fault = "to_csv" /\ u.raised) THEN 1 ELSE 0)
        ELSE Outcome(c.notes, c.stats, IF c.raised THEN cur ELSE c.ret_id, ~c.raised,
                     <<"save_note">>, c.raised, IF fault = "read_csv" THEN 0 ELSE 1)

\* variant: every save creates a note
save_or_update_AlwaysCreate(file, stats, t, cur, title, text, fault) ==
    LET xp == xp_of(text)
        c  == save_note(file, stats, t, title, text, "", xp, fault)
    IN  Outcome(c.notes, c.stats, IF c.raised THEN cur ELSE c.ret_id, ~c.raised,
                <<"save_note">>, c.raised, IF fault = "read_csv" THEN 0 ELSE 1)

\* if self.current_note_id is not None: update_note, and save_note when it
\* reports not-found; else: save_note.  The id save_note returns becomes
\* the current note id.
save_or_update(file, stats, t, cur, title, text, fault) ==
    LET xp == xp_of(text)
        u  == update_note(file, t, cur, title, text, "", xp, fault)
        c  == save_note(file, stats, t, title, text, "", xp, fault)
    IN  IF cur # 0 /\ u.raised
        THEN Outcome(u.notes, stats, cur, FALSE, <<"update_note">>, TRUE,
                     IF fault = "to_csv" THEN 1 ELSE 0)
        ELSE IF cur # 0 /\ u.ret_ok
        THEN Outcome(u.notes, stats, cur, TRUE, <<"update_note">>, FALSE, 1)
        ELSE Outcome(c.notes, c.stats, IF c.raised THEN cur ELSE c.ret_id, ~c.raised,
                     IF cur # 0 THEN <<"update_note", "save_note">> ELSE <<"save_note">>,
                     c.raised, IF fault = "read_csv" THEN 0 ELSE 1)

\* App.save_note_silent: the autosave.  An exception of a store call is
\* caught and logged; is_modified is cleared after the store call returned.
save_note_silent(file, stats, t, cur, title0, text0, fault) ==
    LET title == strip(title0)
        text  == strip(text0)
    IN  IF too_short(text)
        THEN Outcome(file, stats, cur, FALSE, <<>>, FALSE, 0)
        ELSE IF title = "" /\ fault = "read_csv"
        THEN Outcome(file, stats, cur, FALSE, <<>>, TRUE, 0)
        ELSE save_or_update(file, stats, t, cur,
                            IF title = "" THEN auto_title(file) ELSE title, text, fault)

\* App.save_note: the manual save.  An empty text is refused with a warning.
save_note_manual(file, stats, t, cur, title0, text0) ==
    LET title == strip(title0)
        text  == strip(text0)
    IN  IF text = ""
        THEN Outcome(file, stats, cur, FALSE, <<>>, FALSE, 0)
        ELSE save_or_update(file, stats, t, cur,
                            IF title = "" THEN auto_title(file) ELSE title, text, "none")

\* App.start_autosave_timer: one tick of the autosave, the next one is
\* scheduled on return
start_autosave_timer(file, stats, t, cur, dirty, title, text, fault) ==
    IF dirty
    THEN save_note_silent(file, stats, t, cur, title, text, fault)
    ELSE Outcome(file, stats, cur, FALSE, <<>>, FALSE, 0)

\* variant: the timer is left running
stop_autosave_timer_NoOp(timer) == timer

\* App.stop_autosave_timer: after_cancel, autosave_timer = None
stop_autosave_timer(timer) == FALSE

\* App.refresh_notes: self.notes = storage.list_notes(limit=200); of a note
\* the editor reads the id, the title and the text
refresh_notes(file) ==
    LET notes == list_notes(file, 200)
    IN  [i \in 1..Len(notes) |->
            [id |-> notes[i].id, title |-> notes[i].title, text |-> notes[i].text]]

\* the steps that end an editing session
SessionEnds ==
    {"new_note", "on_note_select", "delete_ask", "delete_cancel", "delete_removed",
     "delete_not_found", "delete_raised"}

\* the record ui of a step that made the store calls of r; a step in which
\* a store call raises ends the editing session too
Step(op, r, fault) ==
    [op |-> op, calls |-> r.calls, dirty |-> is_modified, raised |-> r.raised,
     gone |-> ui.gone,
     added |-> IF op \in SessionEnds \/ fault # "none" THEN 0
               ELSE ui.added + Len(r.notes) - Len(notes_csv)]

\* a step that called no store operation
NoSave == Outcome(notes_csv, stats_json, current_note_id, FALSE, <<>>, FALSE, 0)

\* the files, the clock, the current note id and the dirty flag after a save
Apply(r) ==
    /\ notes_csv' = r.notes
    /\ stats_json' = r.stats
    /\ now' = now + r.clock
    /\ current_note_id' = r.cur
    /\ is_modified' = (is_modified /\ ~r.saved)

\* the event loop takes the next event of the user or of a timer: the
\* window is open, no dialog holds the input, no <<Modified>> event waits
Idle == ~closed /\ ~dialog.open /\ ~edit_modified

\* the user types in the text widget; the <<Modified>> event of a keystroke
\* is handled before the next event: mark_modified(), edit_modified(False)
TypeText ==
    \E s \in EditorTexts :
        /\ Idle
        /\ s # txt_content
        /\ txt_content' = s
        /\ is_modified' = TRUE
        /\ ui' = [Step("type_text", NoSave, "none") EXCEPT !.gone = FALSE]
        /\ UNCHANGED <<store_vars, sched_vars, entry_title, edit_modified,
                       current_note_id, autosave_timer, filtered_notes,
                       curselection, dialog, closed>>

\* the user types in the title entry: <KeyRelease> calls mark_modified
TypeTitle ==
    \E s \in EditorTitles :
        /\ Idle
        /\ s # entry_title
        /\ entry_title' = s
        /\ is_modified' = TRUE
        /\ ui' = [Step("type_title", NoSave, "none") EXCEPT !.gone = FALSE]
        /\ UNCHANGED <<store_vars, sched_vars, txt_content, edit_modified,
                       current_note_id, autosave_timer, filtered_notes,
                       curselection, dialog, closed>>

\* App._on_text_modified handles the waiting <<Modified>> event:
\* mark_modified(), edit_modified(False)
OnTextModified ==
    /\ ~closed
    /\ edit_modified
    /\ is_modified' = TRUE
    /\ edit_modified' = FALSE
    /\ ui' = Step("on_text_modified", NoSave, "none")
    /\ UNCHANGED <<store_vars, sched_vars, entry_title, txt_content,
                   current_note_id, autosave_timer, filtered_notes,
                   curselection, dialog, closed>>

\* the timer fires start_autosave_timer
DoAutosaveTick(fault) ==
    LET r == start_autosave_timer(notes_csv, stats_json, now, current_note_id,
                                  is_modified, entry_title, txt_content, fault)
    IN  /\ ~closed /\ ~edit_modified
        /\ autosave_timer
        /\ now < MaxFaultClock
        /\ fault # "none" => r.raised
        /\ Apply(r)
        /\ autosave_timer' = TRUE
        /\ ui' = Step("autosave_tick", r, fault)
        /\ UNCHANGED <<last, prev_deleted, created_ids, sched_vars, entry_title,
                       txt_content, edit_modified, filtered_notes, curselection,
                       dialog, closed>>

AutosaveTick == DoAutosaveTick("none")

\* a store call of the autosave raises
AutosaveTickFault == \E fault \in Faults : DoAutosaveTick(fault)

\* the user presses Save: App.save_note, then refresh_notes
ManualSave ==
    LET r == save_note_manual(notes_csv, stats_json, now, current_note_id,
                              entry_title, txt_content)
    IN  /\ Idle
        /\ now < MaxFaultClock
        /\ Apply(r)
        /\ filtered_notes' = IF r.saved THEN refresh_notes(r.notes) ELSE filtered_notes
        /\ curselection' = IF r.saved THEN 0 ELSE curselection
        /\ ui' = Step("save_note", r, "none")
        /\ UNCHANGED <<last, prev_deleted, created_ids, sched_vars, entry_title,
                       txt_content, edit_modified, autosave_timer, dialog, closed>>

\* the user presses New: App.new_note
NewNote ==
    /\ Idle
    /\ entry_title' = ""
    /\ txt_content' = ""
    /\ edit_modified' = (txt_content # "")
    /\ current_note_id' = 0
    /\ is_modified' = FALSE
    /\ ui' = [Step("new_note", NoSave, "none") EXCEPT !.gone = FALSE]
    /\ UNCHANGED <<store_vars, sched_vars, autosave_timer, filtered_notes,
                   curselection, dialog, closed>>

\* the user selects a line of the listbox: App.on_note_select
OnNoteSelect ==
    \E idx \in 1..Len(filtered_notes) :
        LET note == filtered_notes[idx]
        IN  /\ Idle
            /\ curselection' = idx
            /\ current_note_id' = note.id
            /\ entry_title' = note.title
            /\ txt_content' = note.text
            /\ edit_modified' = (txt_content # "" \/ note.text # "")
            /\ is_modified' = FALSE
            /\ ui' = [Step("on_note_select", NoSave, "none") EXCEPT !.gone = FALSE]
            /\ UNCHANGED <<store_vars, sched_vars, autosave_timer, filtered_notes,
                           dialog, closed>>

\* App.delete_selected_note up to its confirmation dialog: the timer is
\* stopped, the note of the selected line is kept, the editor is cleared
DeleteAsk ==
    LET note == filtered_notes[curselection]
    IN  /\ Idle
        /\ curselection \in 1..Len(filtered_notes)
        /\ autosave_timer' = stop_autosave_timer(autosave_timer)
        /\ dialog' = [open |-> TRUE, nid |-> note.id,
                      original_title |-> note.title, original_text |-> note.text,
                      notes |-> notes_csv, stats |-> stats_json,
                      cur |-> current_note_id, title |-> entry_title,
                      text |-> txt_content, dirty |-> is_modified]
        /\ entry_title' = ""
        /\ txt_content' = ""
        /\ edit_modified' = (txt_content # "")
        /\ is_modified' = FALSE
        /\ ui' = Step("delete_ask", NoSave, "none")
        /\ UNCHANGED <<store_vars, sched_vars, current_note_id, filtered_notes,
                       curselection, closed>>

\* the user answers No: the kept note is put back, the timer is started
DeleteCancel ==
    LET r == start_autosave_timer(notes_csv, stats_json, now, current_note_id,
                                  is_modified, dialog.original_title,
                                  dialog.original_text, "none")
    IN  /\ ~closed
        /\ dialog.open
        /\ now < MaxFaultClock
        /\ entry_title' = dialog.original_title
        /\ txt_content' = dialog.original_text
        /\ edit_modified' = (edit_modified \/ dialog.original_text # "")
        /\ Apply(r)
        /\ autosave_timer' = TRUE
        /\ dialog' = NoDialog
        /\ ui' = Step("delete_cancel", r, "none")
        /\ UNCHANGED <<last, prev_deleted, created_ids, sched_vars, filtered_notes,
                       curselection, closed>>

\* the user answers Yes: storage.delete_note(nid), then the timer is started
DoDeleteConfirm(fault) ==
    LET d == delete_note(notes_csv, stats_json, PyInt(dialog.nid), fault)
        cur == IF d.ret_ok THEN 0 ELSE current_note_id
        r == start_autosave_timer(d.notes, d.stats, now, cur, is_modified,
                                  entry_title, txt_content, "none")
    IN  /\ ~closed
        /\ dialog.open
        /\ now < MaxFaultClock
        /\ fault # "none" => d.raised
        /\ Apply(r)
        /\ filtered_notes' = IF d.ret_ok THEN refresh_notes(d.notes) ELSE filtered_notes
        /\ curselection' = IF d.ret_ok THEN 0 ELSE curselection
        /\ autosave_timer' = TRUE
        /\ dialog' = NoDialog
        /\ ui' = [Step(IF d.raised THEN "delete_raised"
                       ELSE IF d.ret_ok THEN "delete_removed" ELSE "delete_not_found",
                       r, fault)
                    EXCEPT !.calls = <<"delete_note">> \o r.calls,
                           !.gone = (d.ret_ok \/ ui.gone)]
        /\ UNCHANGED <<last, prev_deleted, created_ids, sched_vars, entry_title,
                       txt_content, edit_modified, closed>>

DeleteConfirm == DoDeleteConfirm("none")

\* storage.delete_note raises
DeleteConfirmFault == \E fault \in Faults : DoDeleteConfirm(fault)

\* the user closes the window: App.on_closing saves a modified note, cancels
\* the timer, stops the scheduler and destroys the window with its widgets
OnClosing ==
    LET r == start_autosave_timer(notes_csv, stats_json, now, current_note_id,
                                  is_modified, entry_title, txt_content, "none")
    IN  /\ Idle
        /\ now < MaxFaultClock
        /\ Apply(r)
        /\ autosave_timer' = FALSE
        /\ closed' = TRUE
        /\ StopScheduler
        /\ entry_title' = ""
        /\ txt_content' = ""
        /\ filtered_notes' = <<>>
        /\ curselection' = 0
        /\ ui' = Step("on_closing", r, "none")
        /\ UNCHANGED <<last, prev_deleted, created_ids, edit_modified, dialog>>

NextEditor ==
    \/ TypeText /\ UNCHANGED lb_rem
    \/ TypeTitle /\ UNCHANGED lb_rem
    \/ OnTextModified /\ UNCHANGED lb_rem
    \/ AutosaveTick /\ UNCHANGED lb_rem
    \/ AutosaveTickFault /\ UNCHANGED lb_rem
    \/ ManualSave /\ UNCHANGED lb_rem
    \/ NewNote /\ UNCHANGED lb_rem
    \/ OnNoteSelect /\ UNCHANGED lb_rem
    \/ DeleteAsk /\ UNCHANGED lb_rem
    \/ DeleteCancel /\ UNCHANGED lb_rem
    \/ DeleteConfirm /\ UNCHANGED lb_rem
    \/ DeleteConfirmFault /\ UNCHANGED lb_rem
    \/ OnClosing /\ UNCHANGED lb_rem

\* the editor, with the store calls it makes; the store calls of the autosave
\* and of the delete may raise
SpecEditor == Init /\ [][NextEditor]_vars

-----------------------------------------------------------------------------
(* The reminders tab (main.py): the listbox of the pending reminders and   *)
(* the Cancel button.  A line of the listbox is kept as the pieces it was  *)
(* formatted from; (cal) stands for the calendar sign.                     *)

\* reminders.list_jobs(): the jobs, next run first
RECURSIVE jobs_in_order(_)
jobs_in_order(S) ==
    IF S = {} THEN <<>>
    ELSE LET first == CHOOSE p \in S : \A q \in S : p[2] <= q[2]
         IN  <<first>> \o jobs_in_order(S \ {first})

\* f"{i}. (cal) {jid} - Next: {formatted_time}"
display_text(i, jid, nxt) ==
    <<ToString(i), ". (cal) ", jid, " - ", "Next: ", ToString(nxt)>>

\* App.refresh_reminders: the lines of the listbox
refresh_reminders(running, store) ==
    LET jobs == jobs_in_order(list_jobs(running, store))
    IN  IF jobs = <<>> THEN NoReminders
        ELSE [i \in 1..Len(jobs) |-> display_text(i, jobs[i][1], jobs[i][2])]

\* the pieces of a line before its first " - "
RECURSIVE before_separator(_)
before_separator(text) ==
    IF text = <<>> \/ Head(text) = " - " THEN <<>>
    ELSE <<Head(text)>> \o before_separator(Tail(text))

\* jid = text.split(" - ")[0]
jid_of_line(text) == Join(before_separator(text))

\* the reminders tab is refreshed (at start, after a reminder was added)
RefreshReminders ==
    /\ ListJobs
    /\ lb_rem' = refresh_reminders(sched_running, jobstore)
    /\ UNCHANGED <<store_vars, entry_title, txt_content, edit_modified,
                   is_modified, current_note_id, autosave_timer, filtered_notes,
                   curselection, dialog, closed, ui>>

\* App.cancel_selected_reminder on the selected line sel
CancelSelectedReminder ==
    \E sel \in 1..Len(lb_rem) :
        LET jid == jid_of_line(lb_rem[sel])
            r   == remove_job(sched_running, jobstore, jid)
            n   == IF r.ret_ok /\ jid \in IdsOf(jobstore)
                   THEN JobWithId(jobstore, jid).n ELSE 0
        IN  /\ jobstore' = r.store
            /\ fate' = [c \in Calls |-> IF c = n THEN "cancelled" ELSE fate[c]]
            /\ rlast' = [NoRCall EXCEPT !.op = "remove_job", !.via = "listbox",
                                        !.jid = jid, !.n = n, !.ret_ok = r.ret_ok,
                                        !.sel = sel]
            /\ wlast' = NoRun
            /\ lb_rem' = refresh_reminders(sched_running, r.store)
            /\ UNCHANGED <<time, sched_running, pool, dispatches, stop_pending,
                           store_vars, entry_title, txt_content, edit_modified,
                           is_modified, current_note_id, autosave_timer,
                           filtered_notes, curselection, dialog, closed, ui>>

NextRemindersUi ==
    \/ ScheduleReminderForm /\ UNCHANGED <<store_vars, editor_vars>>
    \/ RefreshReminders
    \/ CancelSelectedReminder
    \/ ProcessJobs /\ UNCHANGED <<store_vars, editor_vars>>
    \/ RunJob /\ UNCHANGED <<store_vars, editor_vars>>
    \/ Tick /\ UNCHANGED <<store_vars, editor_vars>>

\* the reminders tab: reminders are added with the form, listed and
\* cancelled from the list while the scheduler runs the due ones
SpecRemindersUi == Init /\ [][NextRemindersUi]_vars

-----------------------------------------------------------------------------
(* The resync (utils/sync_stats.py): a script run on its own, on the       *)
(* notes.csv and the stats.json it opens.                                  *)

MaxRows == 2        \* rows of the note tables the resync is run on
MaxRuns == 2        \* runs of the resync in a row

\* json.load of a stats file that holds no JSON object raises
Unreadable == [unreadable |-> TRUE]

RECURSIVE xp_sum(_)
\* df["xp"].fillna(0).sum() (the store writes an xp into every row)
xp_sum(df) == IF df = <<>> THEN 0 ELSE df[1].xp + xp_sum(Tail(df))

\* old_stats: {} when stats.json cannot be read
old_stats(stats) == IF "unreadable" \in DOMAIN stats THEN <<>> ELSE stats

\* new_stats = {"total_xp": ..., "notes_created": ...}, plus the badges of
\* old_stats if it has any
new_stats(df, old) ==
    LET counted == [total_xp |-> IF df = <<>> THEN 0 ELSE xp_sum(df),
                    notes_created |-> IF df = <<>> THEN 0 ELSE Len(df)]
    IN  IF "badges" \in DOMAIN old
        THEN [total_xp |-> counted.total_xp, notes_created |-> counted.notes_created,
              badges |-> old.badges]
        ELSE counted

\* variant: the counters are added to the old ones
sync_stats_Add(file, stats) ==
    LET old == old_stats(stats)
        new == new_stats(read_csv(file), old)
    IN  [notes |-> file,
         stats |-> IF "total_xp" \in DOMAIN old
                   THEN [new EXCEPT !.total_xp = @ + old.total_xp]
                   ELSE new]

\* sync_stats(): notes.csv is read and not written, stats.json is rewritten
sync_stats(file, stats) ==
    [notes |-> file, stats |-> new_stats(read_csv(file), old_stats(stats))]

\* the rows of the tables the resync is run on
SyncRows ==
    {NewRow(nid, 0, "T", "X", "", xp) : nid \in 1..MaxRows, xp \in {0, 5, 7}}

RECURSIVE TablesUpTo(_)
TablesUpTo(n) ==
    IF n = 0 THEN {<<>>}
    ELSE LET shorter == TablesUpTo(n - 1)
         IN  shorter \cup {Append(t, r) : t \in shorter, r \in SyncRows}

\* the note tables: up to MaxRows rows, one row per id
SyncTables ==
    {to_csv(t) : t \in {u \in TablesUpTo(MaxRows) : Cardinality(Ids(u)) = Len(u)}}

\* the stats the resync finds: counters that have drifted, with or without
\* a badges list, or a file that cannot be read
DriftedStats ==
    {[total_xp |-> x, notes_created |-> n] : x \in {0, 5, 99}, n \in {0, 1, 3}}
    \cup {[total_xp |-> x, notes_created |-> n, badges |-> b] :
             x \in {0, 5, 99}, n \in {0, 1, 3}, b \in {<<>>, <<"First Note">>}}
    \cup {Unreadable}

\* the files the script is started on
InitSync ==
    /\ notes_csv \in SyncTables
    /\ stats_json \in DriftedStats
    /\ now = 0
    /\ last = NoCall
    /\ prev_deleted = 0
    /\ created_ids = <<>>
    /\ InitReminders
    /\ InitEditor
    /\ lb_rem = NoReminders

\* python sync_stats.py, run once more after each run
SyncStats ==
    LET r == sync_stats(notes_csv, stats_json)
    IN  /\ Len(ui.calls) < MaxRuns
        /\ notes_csv' = r.notes
        /\ stats_json' = r.stats
        /\ ui' = [ui EXCEPT !.op = "sync_stats", !.calls = Append(@, "sync_stats")]
        /\ UNCHANGED <<now, last, prev_deleted, created_ids, sched_vars, entry_title,
                       txt_content, edit_modified, is_modified, current_note_id,
                       autosave_timer, filtered_notes, curselection, dialog, closed>>

NextSync == SyncStats /\ UNCHANGED lb_rem

\* the resync run on any of the tables and stats
SpecSync == InitSync /\ [][NextSync]_vars

-----------------------------------------------------------------------------
(* Properties *)

Table == read_csv(notes_csv)

RECURSIVE SumXp(_)
SumXp(df) == IF df = <<>> THEN 0 ELSE Head(df).xp + SumXp(Tail(df))

\* the row of the table with id nid
RowOf(df, nid) == KeepId(df, nid)[1]

\* the instant a printed timestamp stands for, in clock ticks
TimeOf(printed) ==
    printed[1] * TicksPerSec + (IF Len(printed) > 1 THEN printed[2] ELSE 0)

\* C1: the ids save_note returns are strictly increasing, so that none is
\* returned twice, whatever deletes come between the creates.
C1_IdsStrictlyIncreasing ==
    \A i, j \in 1..Len(created_ids) : i < j => created_ids[i] < created_ids[j]

\* C2: when every call runs to completion, total_xp is the sum of xp over
\* the rows of the note table.
C2_TotalXpIsSum == stats_json.total_xp = SumXp(Table)

C2_Witness ==
    /\ last.op = "delete_note" /\ last.ret_ok
    /\ Len(Table) >= 1
    /\ stats_json.total_xp > 0

\* C3: when every call runs to completion, notes_created is the number of
\* rows of the note table.
C3_NotesCreatedIsCount == stats_json.notes_created = Len(Table)

C3_Witness ==
    /\ last.op = "save_note"
    /\ prev_deleted # 0
    /\ Len(Table) >= 2

\* C4: the note table never holds two rows with the same id.
C4_OneRowPerId == Cardinality(Ids(Table)) = Len(Table)

\* an id has been handed out a second time while other rows are in the table
C4_Witness ==
    /\ Len(Table) >= 2
    /\ \E i, j \in 1..Len(created_ids) : i < j /\ created_ids[i] = created_ids[j]

\* C5: update_note on an id of the table returns True and leaves the number
\* and order of rows, every row's id and xp, every other row and the stats as
\* they were, whatever xp it is passed.
C5_UpdateFrame ==
    [][(last'.op = "update_note" /\ ~last'.raised /\ last'.note_id \in Ids(Table))
        => LET df  == Table
               df2 == read_csv(notes_csv')
           IN  /\ last'.ret_ok
               /\ Len(df2) = Len(df)
               /\ \A i \in 1..Len(df) :
                    /\ df2[i].id = df[i].id
                    /\ df2[i].xp = df[i].xp
                    /\ df[i].id # last'.note_id => df2[i] = df[i]
               /\ stats_json' = stats_json]_vars

C5_Witness ==
    /\ last.op = "update_note" /\ last.ret_ok
    /\ Len(Table) >= 2
    /\ RowOf(Table, last.note_id).xp # last.xp
    /\ stats_json.total_xp > 0

\* C6: update_note on an id that is not in the table returns False and
\* leaves notes.csv and stats.json as they were.
C6_UpdateAbsent ==
    [][(last'.op = "update_note" /\ ~last'.raised /\ last'.note_id \notin Ids(Table))
        => /\ ~last'.ret_ok
           /\ notes_csv' = notes_csv
           /\ stats_json' = stats_json]_vars

C6_Witness ==
    /\ last.op = "update_note" /\ ~last.ret_ok
    /\ Len(Table) >= 1
    /\ last.note_id \notin Ids(Table)
    /\ \E i \in 1..Len(created_ids) : created_ids[i] = last.note_id

\* C7: a delete_note of the id that the call just before deleted returns
\* False and leaves notes.csv and stats.json as that call left them.
C7_DeleteTwice ==
    [][(/\ last.op = "delete_note" /\ last.ret_ok
        /\ last'.op = "delete_note" /\ ~last'.raised
        /\ last'.note_id = last.note_id)
        => /\ ~last'.ret_ok
           /\ notes_csv' = notes_csv
           /\ stats_json' = stats_json]_vars

C7_Witness ==
    /\ last.op = "delete_note" /\ ~last.ret_ok
    /\ prev_deleted = last.note_id
    /\ Len(Table) >= 1
    /\ stats_json.total_xp > 0

\* C8: right after save_note(title, text, tags, xp) has returned id n,
\* list_notes(limit=1) returns one note: id n with that title, text, tags and xp.
C8_RoundTrip ==
    (last.op = "save_note" /\ ~last.raised)
        => LET got == list_notes(notes_csv, 1)
           IN  /\ Len(got) = 1
               /\ got[1].id = last.ret_id
               /\ got[1].title = last.title
               /\ got[1].text = last.text
               /\ got[1].tags = last.tags
               /\ got[1].xp = last.xp

\* C9: list_notes(limit) returns min(limit, n) rows of the table, newest
\* first, and no row left out is newer than a row returned; a note just
\* updated is the newest.
C9_ListNewestFirst ==
    /\ last.op = "list_notes" =>
        LET got == last.ret_list
            df  == Table
        IN  /\ Len(got) = Min(last.limit, Len(df))
            /\ \A k \in 1..Len(got) : \E i \in 1..Len(df) :
                    df[i].id = got[k].id /\ df[i].datetime = got[k].datetime
            /\ \A k \in 1..(Len(got) - 1) :
                    TimeOf(got[k].datetime) > TimeOf(got[k + 1].datetime)
            /\ \A i \in 1..Len(df) :
                    (\A k \in 1..Len(got) : got[k].id # df[i].id)
                        => \A k \in 1..Len(got) :
                                TimeOf(df[i].datetime) < TimeOf(got[k].datetime)
    /\ (last.op = "update_note" /\ last.ret_ok) =>
        list_notes(notes_csv, 1)[1].id = last.note_id

\* two notes, the older one updated since: list_notes(1) returns the older one
C9_Witness ==
    /\ last.op = "list_notes" /\ last.limit = 1
    /\ Len(Table) = 2
    /\ Len(last.ret_list) = 1
    /\ last.ret_list[1].id = Table[1].id
    /\ Table[1].id < Table[2].id

\* C10 as stated: a save_note call either returns the id with the row written
\* and both counters raised for it, or raises with notes.csv and stats.json
\* untouched.
C10_CreateAtomic ==
    [][last'.op = "save_note"
        => IF last'.raised
           THEN notes_csv' = notes_csv /\ stats_json' = stats_json
           ELSE /\ Len(notes_csv') = Len(notes_csv) + 1
                /\ notes_csv'[Len(notes_csv')].id = last'.ret_id
                /\ stats_json'.total_xp = stats_json.total_xp + last'.xp
                /\ stats_json'.notes_created = stats_json.notes_created + 1]_vars

\* C10: a save_note call that returns its id has appended the row and raised
\* both counters for it.  A call that raises returns no id and leaves
\* stats.json as it was; notes.csv is as it was too, or, when the call raised
\* at the stats record, holds the new row, which the stats then do not count.
C10_CreateOutcomes ==
    [][last'.op = "save_note"
        => LET df  == Table
               df2 == read_csv(notes_csv')
               appended ==
                   /\ Len(df2) = Len(df) + 1
                   /\ SubSeq(df2, 1, Len(df)) = df
                   /\ df2[Len(df2)].id \notin Ids(df)
                   /\ df2[Len(df2)].xp = last'.xp
           IN  IF last'.raised
               THEN /\ last'.ret_id = 0
                    /\ stats_json' = stats_json
                    /\ notes_csv' = notes_csv \/ appended
               ELSE /\ appended
                    /\ df2[Len(df2)].id = last'.ret_id
                    /\ stats_json'.total_xp = stats_json.total_xp + last'.xp
                    /\ stats_json'.notes_created = stats_json.notes_created + 1]_vars

\* the latest call wrote its row and raised: the row is in no counter
C10_Witness ==
    /\ last.op = "save_note" /\ last.raised
    /\ Len(Table) = 1
    /\ Table[1].datetime = isoformat(Timestamp(now - 1))
    /\ Table[1].xp = 7
    /\ stats_json = [total_xp |-> 0, notes_created |-> 0]


\* the argument is a text that int() does not accept
Malformed(v) == v.type = "str" /\ ~IsNumeral(v.s)

\* C11 (as stated): a delete_note whose id cannot be coerced to an integer
\* returns False, leaves the table and the stats as they were, and makes no
\* I/O step at all.
C11_RejectedBeforeIO ==
    [][(last'.op = "delete_note" /\ Malformed(last'.arg))
        => /\ ~last'.ret_ok /\ ~last'.raised
           /\ notes_csv' = notes_csv /\ stats_json' = stats_json
           /\ last'.io = <<>>]_vars

\* C11 (amended): a delete_note whose id cannot be coerced to an integer
\* returns False and leaves the table and the stats as they were; the call
\* has by then run ensure_files() and read notes.csv, and writes nothing.
C11_RejectedAfterRead ==
    [][(last'.op = "delete_note" /\ Malformed(last'.arg))
        => /\ ~last'.ret_ok /\ ~last'.raised
           /\ notes_csv' = notes_csv /\ stats_json' = stats_json
           /\ last'.io = <<"ensure_files", "read_csv">>]_vars

\* a text starting with the id of a stored note has been refused
C11_Witness ==
    /\ last.op = "delete_note" /\ Malformed(last.arg) /\ ~last.ret_ok
    /\ LeadingDigits(last.arg.s) \in Ids(Table)
    /\ last.io = <<"ensure_files", "read_csv">>


-----------------------------------------------------------------------------
(* Properties of the reminders *)

\* the schedule calls whose job list_jobs() shows
Listed == {j.n : j \in get_jobs(sched_running, jobstore)}

\* the job of schedule call n has left the store for good
Gone(n) == fate[n] \in {"dispatched", "failed", "missed", "skipped", "cancelled"}

\* the job of call n, held by a worker, is more than the grace time late
Late(n) == \E j \in pool : j.n = n /\ time - j.run_date > misfire_grace_time

IsRemove == rlast'.op = "remove_job" /\ rlast' # rlast

\* the step is a schedule call
IsSchedule == rlast'.op = "schedule" /\ rlast' # rlast

Fired(n) == fate[n] \in {"submitted", "dispatched", "failed", "missed", "skipped"}

\* C14: notify is invoked at most once for each job; a job goes from
\* scheduled to fired or from scheduled to cancelled and stays there, and a
\* fired or cancelled job is not listed again (only a new schedule call
\* lists its id again).
C14_AtMostOnce ==
    /\ [](\A n \in Calls : dispatches[n] <= 1)
    /\ [][\A n \in Calls :
            /\ Fired(n) => n \notin Listed /\ n \notin Listed' /\ fate'[n] # "scheduled"
                           /\ fate'[n] # "cancelled" /\ fate'[n] # "none"
            /\ fate[n] = "cancelled" => n \notin Listed' /\ fate'[n] = "cancelled"
            /\ dispatches[n] > 0 => fate'[n] = fate[n] /\ dispatches'[n] = dispatches[n]
            /\ dispatches'[n] > dispatches[n] => fate[n] = "submitted"
            /\ fate'[n] = "cancelled" /\ fate[n] # "cancelled" => fate[n] = "scheduled"]_vars

\* with one job dispatched and another cancelled, list_jobs() has shown
\* neither
C14_Witness ==
    \E n, m \in Calls :
        /\ fate[n] = "dispatched" /\ dispatches[n] = 1
        /\ fate[m] = "cancelled" /\ dispatches[m] = 0
        /\ rlast.op = "list_jobs" /\ sched_running
        /\ rlast.ret_list = list_jobs(sched_running, jobstore)
        /\ \A j \in jobstore : j.n # n /\ j.n # m

\* C15: remove_job of an id the scheduler does not list returns False,
\* raises nothing and leaves the jobs as they were; a second remove_job of
\* the id just removed returns False.
C15_CancelAbsent ==
    [][/\ IsRemove /\ rlast'.jid \notin IdsOf(get_jobs(sched_running, jobstore))
            => ~rlast'.ret_ok /\ ~rlast'.raised /\ jobstore' = jobstore
               /\ fate' = fate
       /\ IsRemove /\ rlast'.repeats => ~rlast'.ret_ok]_vars

\* the id removed by the call before is removed again
C15_Witness ==
    /\ rlast.op = "remove_job" /\ rlast.repeats /\ ~rlast.ret_ok
    /\ \E n \in Calls : fate[n] = "cancelled"

\* C16: a job that was stored when stop_scheduler was called is never
\* dispatched.
C16_NoDispatchAfterShutdown ==
    \A n \in stop_pending : dispatches[n] = 0 /\ fate[n] = "scheduled"

\* after the shutdown the run_date of a discarded job has come, while a
\* job handed over before the shutdown was still dispatched
C16_Witness ==
    /\ ~sched_running
    /\ \E j \in jobstore : j.n \in stop_pending /\ j.run_date <= time
    /\ rlast.op = "stop_scheduler"
    /\ \E n \in Calls : fate[n] = "dispatched"

\* C17 (as stated): notify raises nothing to its caller: a failure of
\* osascript does not keep the announcement from being spoken, and a
\* failure of speak stays inside notify.
C17_NotifyNeverRaises ==
    (wlast.n # 0 /\ ~wlast.missed)
        => /\ ~wlast.result.raised
           /\ (wlast.osascript_failed /\ ~wlast.speak_failed) => wlast.result.spoken

\* C18: when notify raises in a job's run, the job is out of the store all
\* the same, the scheduler and the other jobs are as they were, and every
\* job still stored is taken up when it is due.
C18_FailureIsolated ==
    /\ [][(wlast' # wlast /\ wlast'.result.raised)
            => /\ fate'[wlast'.n] = "failed" /\ wlast'.n \notin Listed'
               /\ sched_running' = sched_running /\ jobstore' = jobstore
               /\ \A n \in Calls \ {wlast'.n} : fate'[n] = fate[n]]_vars
    /\ []<>(\/ ~sched_running
            \/ \A m \in Calls : fate[m] # "failed"
            \/ \A n \in Calls : fate[n] # "scheduled")

\* notify raised in the run of one job, and another job was dispatched in
\* the latest run
C18_Witness ==
    \E n, m \in Calls :
        /\ fate[n] = "failed" /\ fate[m] = "dispatched"
        /\ wlast.n = m /\ ~wlast.result.raised
        /\ sched_running /\ Listed = {}

\* the step is a schedule call without an id for an instant whose derived
\* id a stored job holds
IsCollision ==
    /\ IsSchedule /\ rlast'.jid = ""
    /\ TimestampText(rlast'.run_dt) \in IdsOf(jobstore)

\* C19 (as stated): a second schedule call without an id for the same
\* instant returns the id without error and overwrites the first job: the
\* store then holds one job with that id, the second call's.
C19_SecondOverwrites ==
    [][IsCollision
        => /\ ~rlast'.raised /\ rlast'.ret_id = TimestampText(rlast'.run_dt)
           /\ {j.n : j \in {k \in jobstore' : k.id = rlast'.ret_id}} = {rlast'.n}]_vars

\* C19 (amended): a second schedule call without an id for the same
\* instant, made while the first job is stored, raises (ConflictingIdError)
\* and returns no id; the store is unchanged, so it still holds exactly one
\* job with that id, the first call's with the first message.  The ids of
\* the stored jobs are distinct.
C19_SecondRefused ==
    /\ [][IsCollision
            => /\ rlast'.raised /\ rlast'.ret_id = ""
               /\ jobstore' = jobstore
               /\ fate'[rlast'.n] = "refused"]_vars
    /\ [](Cardinality(IdsOf(jobstore)) = Cardinality(jobstore))

\* the second call for the instant was refused, the first job is stored
C19_Witness ==
    /\ rlast.op = "schedule" /\ rlast.jid = "" /\ rlast.raised
    /\ \E j \in jobstore :
          /\ j.id = TimestampText(rlast.run_dt) /\ j.n < rlast.n
          /\ j.run_date = rlast.run_dt

\* C20 (as stated): a handler of the UI calls schedule only with a time
\* strictly after the present one.
C20_UiRejectsPast ==
    [][(IsSchedule /\ rlast'.via \in {"form", "note"}) => rlast'.run_dt > time]_vars

-----------------------------------------------------------------------------
(* The note editor *)

\* the number of characters of a text that are not blanks (the texts of the
\* editor have blanks at their ends only)
StrippedLen(s) == Cardinality({i \in DOMAIN Chars(s) : Chars(s)[i] # " "})

\* the latest step was a tick of the autosave timer that found the dirty
\* flag set and in which no store call raised
DirtyTick == ui.op = "autosave_tick" /\ ui.dirty /\ ~ui.raised

\* C21: an autosave tick that finds the dirty flag set calls neither
\* save_note nor update_note when the stripped text of the editor is empty
\* or shorter than 3 characters, and calls one of them when the stripped text
\* has 3 characters or more.
C21_AutosaveMinLength ==
    DirtyTick => ((ui.calls = <<>>) <=> (StrippedLen(txt_content) < MinAutosaveLen))

\* a tick found the dirty flag set and a text of 2 characters between blanks
C21_Witness == DirtyTick /\ txt_content = " ab " /\ ui.calls = <<>>


\* the ids of the rows of notes.csv before and after a step
IdsBefore == Ids(read_csv(notes_csv))
IdsAfter  == Ids(read_csv(notes_csv'))

\* the step is a tick of the autosave timer that finds the dirty flag set
\* and a text of 3 characters or more, and in which no store call raises
SavingTick ==
    /\ ui'.op = "autosave_tick" /\ is_modified /\ ~ui'.raised
    /\ StrippedLen(txt_content) >= MinAutosaveLen

\* the step adds no row and leaves the row of note nid with the editor's text
UpdatesRow(nid) ==
    /\ IdsAfter = IdsBefore
    /\ Len(notes_csv') = Len(notes_csv)
    /\ \E i \in 1..Len(notes_csv') :
          notes_csv'[i].id = nid /\ Chars(notes_csv'[i].text) = rstrip(lstrip(Chars(txt_content)))

\* the step adds one row, and its id is the current note id afterwards
CreatesRow ==
    /\ Len(notes_csv') = Len(notes_csv) + 1
    /\ IdsAfter = IdsBefore \cup {current_note_id'}
    /\ current_note_id' \notin IdsBefore

\* C22: an autosave tick with the dirty flag set and a saveable text: when the
\* editor holds note N and N exists, update_note is called on N alone and no
\* row is created; when N is not found, update_note is followed by save_note
\* and the new id becomes the current note id; on a new note save_note is
\* called and its id becomes the current note id; in each case the dirty flag
\* is cleared.
C22_UpdateOrCreate ==
    [][SavingTick =>
        /\ ~is_modified'
        /\ (current_note_id # 0 /\ current_note_id \in IdsBefore) =>
              /\ ui'.calls = <<"update_note">>
              /\ UpdatesRow(current_note_id)
              /\ current_note_id' = current_note_id
        /\ (current_note_id # 0 /\ current_note_id \notin IdsBefore) =>
              /\ ui'.calls = <<"update_note", "save_note">>
              /\ CreatesRow
        /\ current_note_id = 0 =>
              /\ ui'.calls = <<"save_note">>
              /\ CreatesRow]_vars

\* a tick found the note of the editor gone from the store and created it anew
C22_Witness ==
    /\ DirtyTick /\ ui.calls = <<"update_note", "save_note">>
    /\ current_note_id \in Ids(read_csv(notes_csv))
    /\ ~is_modified


\* the latest step ended a delete flow
FlowEnded ==
    ui.op \in {"delete_cancel", "delete_removed", "delete_not_found", "delete_raised"}

\* the calls save_note_silent made in the latest step
AutosaveCalls == SelectSeq(ui.calls, LAMBDA c : c \in {"save_note", "update_note"})

\* C23: from the moment delete_selected_note has stopped the autosave timer
\* until the flow ends no autosave tick calls the store, and when the flow
\* has ended the timer is running again, whatever the outcome (the user
\* cancels, the note is removed, the note is not found, delete_note raises).
C23_AutosavePausedInFlow ==
    /\ dialog.open => (~autosave_timer /\ ui.op # "autosave_tick")
    /\ FlowEnded => (AutosaveCalls = <<>> /\ autosave_timer)


\* after a delete flow has removed a note, and until the user enters
\* something, the editor is an empty new note and no step saves anything
NoResurrection ==
    ui.gone =>
        /\ current_note_id = 0 /\ txt_content = "" /\ entry_title = ""
        /\ ui.op \in {"autosave_tick", "on_closing", "save_note"} => ui.calls = <<>>

\* C24: after a delete flow that removed note N, and until the user enters
\* new content, no autosave tick creates or updates a row: the editor is left
\* as a new note, empty, with the dirty flag cleared.
C24_LeftCleanAfterDelete == NoResurrection /\ (ui.gone => ~is_modified)


SavedInStep ==
    /\ SelectSeq(ui'.calls, LAMBDA c : c \in {"save_note", "update_note"}) # <<>>
    /\ ~ui'.raised

\* C26: every change the user makes to the content of the editor sets the
\* dirty flag; once set it is cleared only by a step that saved (manual save
\* or autosave) or by loading a note from the list; a tick that skips or
\* whose store call raises leaves it set; new_note and the delete flow do
\* not clear it.
C26_DirtyClearedOnlyBySave ==
    [][/\ ui'.op \in {"type_text", "type_title"} => is_modified'
       /\ (is_modified /\ ~is_modified') => (SavedInStep \/ ui'.op = "on_note_select")
       /\ (ui'.op = "autosave_tick" /\ is_modified /\ ~SavedInStep) => is_modified']_vars


-----------------------------------------------------------------------------
(* The resync *)

\* C27: a run of sync_stats on any note table and any drifted stats leaves
\* total_xp equal to the sum of xp over the rows of the table and
\* notes_created equal to the number of rows, keeps a badges list the stats
\* had, does not change the note table, and a second run changes nothing.
C27_ResyncRecounts ==
    [][ui'.op = "sync_stats" =>
        /\ stats_json'.total_xp = SumXp(read_csv(notes_csv))
        /\ stats_json'.notes_created = Len(notes_csv)
        /\ "badges" \in DOMAIN stats_json =>
              ("badges" \in DOMAIN stats_json' /\ stats_json'.badges = stats_json.badges)
        /\ notes_csv' = notes_csv
        /\ ui.op = "sync_stats" => stats_json' = stats_json]_vars

\* the resync has been run twice on two rows, counters that had drifted and
\* a badges list, which it kept
C27_Witness ==
    /\ ui.calls = <<"sync_stats", "sync_stats">>
    /\ Len(notes_csv) = 2 /\ SumXp(read_csv(notes_csv)) = 12
    /\ stats_json = [total_xp |-> 12, notes_created |-> 2, badges |-> <<"First Note">>]


-----------------------------------------------------------------------------
(* The delete flow *)

\* C28: a delete flow that ends without removing the note (the user cancels,
\* delete_note reports not-found, delete_note raises) leaves notes.csv, the
\* stats, the current note id and the title and text of the editor as they
\* were when the flow began.
C28_FlowWithoutRemovalChangesNothing ==
    [][(dialog.open /\ ui'.op \in {"delete_cancel", "delete_not_found", "delete_raised"}) =>
        /\ notes_csv' = dialog.notes
        /\ stats_json' = dialog.stats
        /\ current_note_id' = dialog.cur
        /\ entry_title' = dialog.title
        /\ txt_content' = dialog.text]_vars


-----------------------------------------------------------------------------
(* Editing sessions *)

\* C29: within one editing session (no new_note, no selection from the list,
\* no delete flow, no store call raising) the edits, the autosave ticks and
\* the manual saves add at most one row to notes.csv: once a save has stored
\* the new id as the current note id, the later saves update that row.
C29_OneRowPerSession ==
    /\ ui.added <= 1
    /\ ui.added = 1 => current_note_id \in Ids(read_csv(notes_csv))

\* a session has created its note and a later tick has updated it
C29_Witness ==
    /\ ui.added = 1 /\ ui.op = "autosave_tick" /\ ui.dirty
    /\ ui.calls = <<"update_note">>


-----------------------------------------------------------------------------
(* The reminders tab *)

\* the line sel of the listbox shows a job that list_jobs still returns
ShowsPending(sel) ==
    /\ sel \in 1..Len(lb_rem) /\ Len(lb_rem[sel]) = 6
    /\ \E p \in list_jobs(sched_running, jobstore) : p[1] = lb_rem[sel][3]

\* C30: cancel_selected_reminder calls remove_job with exactly the id of the
\* job its selected line shows, so cancelling a selected pending reminder
\* removes that job from list_jobs().
C30_CancelSelectedRemoves ==
    [][(rlast'.op = "remove_job" /\ rlast'.via = "listbox" /\ ShowsPending(rlast'.sel)) =>
        /\ rlast'.jid = lb_rem[rlast'.sel][3]
        /\ rlast'.ret_ok
        /\ \A p \in list_jobs(sched_running', jobstore') : p[1] # lb_rem[rlast'.sel][3]]_vars

====
